---- MODULE Spec2Model ----
(***************************************************************************)
(* A model of the DS3231 real-time-clock driver (Source/DS3231.c,          *)
(* Include/DS3231.h): the calendar conversions DS3231_ToUnixTime and       *)
(* DS3231_ToDateTime, the register accessors that read-modify-write the    *)
(* CONTROL and STATUS registers over the I2C bus, and the setters and      *)
(* getters of the timekeeping and alarm registers.                         *)
(***************************************************************************)
EXTENDS Integers, Sequences, FiniteSets, TLC

VARIABLES
    clock,      \* the true calendar instant: the environment the application samples
    dt,         \* the application's DS3231_DateTime structure
    unixtime,   \* the application's uint32_t unixtime variable
    last,       \* the previous DS3231_ToUnixTime call: its input, its instant, its result
    pc,         \* position of the application in its conversion cycle
    ret,        \* what the last driver call returned
    regs,       \* the register file of the DS3231, address 0x00..0x12
    call,       \* the last register-level driver call: function and argument
    bus,        \* the bus transactions that call issued, in order
    setter,     \* the task calling DS3231_SetAlarm1: position, argument, locals
    getter,     \* the task calling DS3231_GetAlarm1: position, *A1_st, status
    mutex,      \* the application's lock around a driver call, if it uses one
    before      \* the alarm 1 configuration the device held at the start

convVars == <<clock, dt, unixtime, last>>
regVars == <<regs, call, bus>>
taskVars == <<setter, getter, mutex, before>>
vars == <<clock, dt, unixtime, last, pc, ret, regs, call, bus, setter, getter, mutex, before>>

\* A D3231_Alarm1 structure with every member 0.
NoAlarm1 ==
    [Seconds |-> 0, Minutes |-> 0, Hours |-> 0, DayDate |-> 0, Mode |-> 0, IntEn |-> 0]

\* No task is inside DS3231_SetAlarm1 or DS3231_GetAlarm1, no lock is used.
NoTasks ==
    /\ setter = [pc |-> 0, A1_st |-> NoAlarm1, control |-> 0, status |-> "none"]
    /\ getter = [pc |-> 0, A1_st |-> NoAlarm1, status |-> "none"]
    /\ mutex = [used |-> FALSE, owner |-> "none"]
    /\ before = NoAlarm1

(***************************************************************************)
(* Integer widths of the C types.                                          *)
(***************************************************************************)
U8(x)  == x % 256
U16(x) == x % 65536

\* A uint32_t is kept as two 16-bit limbs <<high, low>>, so that no value of
\* the model leaves the range of the model checker's integers.
U32Of(n) == <<(n \div 65536) % 65536, n % 65536>>

\* (x + n) as uint32_t, for 0 <= n < 2^31
U32Add(x, n) ==
    LET lo == x[2] + (n % 65536)
    IN  <<(x[1] + (n \div 65536) + (lo \div 65536)) % 65536, lo % 65536>>

\* (x * k) as uint32_t, for 0 <= k < 2^14
U32Mul(x, k) ==
    LET lo == x[2] * k
    IN  <<((x[1] * k) + (lo \div 65536)) % 65536, lo % 65536>>

\* x / (24 * 60 * 60) and x % (24 * 60 * 60); 86400 = 128 * 675
U32DivDay(x) == ((x[1] * 512) + (x[2] \div 128)) \div 675
U32ModDay(x) == ((((x[1] * 512) + (x[2] \div 128)) % 675) * 128) + (x[2] % 128)

(***************************************************************************)
(* Bounds of the model.                                                    *)
(***************************************************************************)
\* Longest run of zero bytes that the model places in memory right after
\* the days_in_month table (the bytes an out-of-bounds read returns).  A
\* build that pads its tables leaves a long run there: with gcc -O0
\* -fsanitize=address 53 zero bytes follow days_in_month, and the call
\* returns Month 65.
MaxZeroRun == 64
\* Last year the clock of the model walks through (the first is 1999).
LastYear == 2100
\* Most bus transactions that fail during one driver call.
MaxFaults == 1

(***************************************************************************)
(* The tables and the constant of the conversions.                         *)
(***************************************************************************)
days_in_month == <<31, 28, 31, 30, 31, 30, 31, 31, 30, 31, 30, 31>>
dow == <<0, 3, 2, 5, 0, 3, 5, 1, 4, 6, 2, 4>>
SECONDS_FROM_1970_TO_2000 == 946684800

\* days_in_month[index] as the C code reads it.  Index 0..11 is the table;
\* an index past the table reads the memory that follows it, which is
\* `after`: a run of zero bytes ended by a non-zero byte.
DimAt(index, after) ==
    IF index < 12 THEN days_in_month[index + 1] ELSE after[index - 11]

\* dow[index] as the C code reads it; past the table it is the byte `w`.
DowAt(index, w) ==
    IF index < 12 THEN dow[index + 1] ELSE w

\* The memory that can follow days_in_month: z zero bytes, then a non-zero one.
AfterTable(z) == [i \in 1..(z + 1) |-> IF i <= z THEN 0 ELSE 1]

(***************************************************************************)
(* DS3231_ToUnixTime: the value stored in *unixtime, or the old value      *)
(* when the function returns early.  Month is within 1..12 here.           *)
(***************************************************************************)
RECURSIVE MonthDays(_, _, _)
\* for (uint8_t i=1; i<months; i++) days += days_in_month[i - 1];
MonthDays(i, months, days) ==
    IF i < months
    THEN MonthDays(i + 1, months, U16(days + days_in_month[i]))
    ELSE days

\* A variant that counts the leap day from February on.
LeapDayFromFebruary(months, years, days) ==
    IF months >= 2 /\ years % 4 = 0 THEN U16(days + 1) ELSE days

\* if (months > 2 && years % 4 == 0) days++;
LeapDayAfterFebruary(months, years, days) ==
    IF months > 2 /\ years % 4 = 0 THEN U16(days + 1) ELSE days

\* A variant that rounds the count of earlier leap years down.
DaysBeforeYearRoundedDown(years) == (365 * years) + (years \div 4)

\* 365 * years + (years + 3) / 4
DaysBeforeYear(years) == (365 * years) + ((years + 3) \div 4)

ToUnixTimeYears(d) ==
    LET years   == d.Year - 2000
        days0   == U16(d.Date - 1)
        days1   == MonthDays(1, d.Month, days0)
        days2   == LeapDayAfterFebruary(d.Month, years, days1)
        days3   == U16(days2 + DaysBeforeYear(years))
        mins    == (days3 * 24 + d.Hour_24mode) * 60 + d.Minute
    IN  U32Add(U32Add(U32Mul(U32Of(mins), 60), d.Second), SECONDS_FROM_1970_TO_2000)

\* A variant that stores 0 when it rejects the year.
ToUnixTimeZeroOnReject(d, old) ==
    IF d.Year >= 2000 THEN ToUnixTimeYears(d) ELSE U32Of(0)

DS3231_ToUnixTime(d, old) ==
    IF d.Year >= 2000 THEN ToUnixTimeYears(d) ELSE old

(***************************************************************************)
(* DS3231_ToDateTime.                                                      *)
(***************************************************************************)
\* currYear % 400 == 0 || (currYear % 4 == 0 && currYear % 100 != 0)
LeapFlag(currYear) ==
    currYear % 400 = 0 \/ (currYear % 4 = 0 /\ currYear % 100 # 0)

RECURSIVE CurrYear(_, _)
\* The while(1) loop that finds the year; returns <<currYear, daysTillNow>>.
CurrYear(currYear, daysTillNow) ==
    LET len == IF LeapFlag(currYear) THEN 366 ELSE 365
    IN  IF daysTillNow < len
        THEN <<currYear, daysTillNow>>
        ELSE CurrYear(currYear + 1, daysTillNow - len)

RECURSIVE MonthScan(_, _, _, _, _)
\* The two while(1) loops that find the month; returns <<month, extraDays>>.
MonthScan(index, month, extraDays, flag, after) ==
    LET len == IF flag = 1 /\ index = 1 THEN 29 ELSE DimAt(index, after)
        next == <<U8(index + 1), U8(month + 1), extraDays - len>>
    IN  IF extraDays - len < 0
        THEN <<month, extraDays>>
        ELSE MonthScan(next[1], next[2], next[3], flag, after)

ToDateTimeFields(currYear, daysTillNow, extraTime, d, after, w) ==
    LET extraDays == daysTillNow + 1
        flag  == IF LeapFlag(currYear) THEN 1 ELSE 0
        scan  == MonthScan(0, 0, extraDays, flag, after)
        month == IF scan[2] > 0 THEN U8(scan[1] + 1) ELSE scan[1]
        date  == IF scan[2] > 0 THEN U8(scan[2])
                 ELSE IF scan[1] = 2 /\ flag = 1 THEN 29
                 ELSE DimAt(scan[1] - 1, after)
        y     == currYear - (IF month < 3 THEN 1 ELSE 0)
        day0  == U8((y + (y \div 4) - (y \div 100) + (y \div 400)
                     + DowAt(month - 1, w) + date) % 7)
        day   == IF day0 = 0 THEN 7 ELSE day0
    IN  [d EXCEPT !.Date = date, !.Month = month, !.Year = U16(currYear),
                  !.Hour_24mode = U8(extraTime \div 3600),
                  !.Minute = U8((extraTime % 3600) \div 60),
                  !.Second = U8((extraTime % 3600) % 60),
                  !.Day = day]

DS3231_ToDateTime(u, d, after, w) ==
    LET yd == CurrYear(1970, U32DivDay(u))
    IN  ToDateTimeFields(yd[1], yd[2], U32ModDay(u), d, after, w)

\* TRUE when DS3231_ToDateTime(u, ...) reads past the end of its tables: the
\* month loop reaches index 12 exactly when the twelve months consume all of
\* extraDays, that is on the last day of a year.
ReadsPastTable(u) ==
    LET yd == CurrYear(1970, U32DivDay(u))
    IN  yd[2] + 1 = (IF LeapFlag(yd[1]) THEN 366 ELSE 365)

\* What a call can find past the tables, as pairs <<z, w>>: z zero bytes
\* after days_in_month, and the byte w after dow (every residue modulo 7).
\* The bytes matter only to a call that reads them.
PastTableBytes(u) ==
    IF ReadsPastTable(u) THEN (0..MaxZeroRun) \X (0..6) ELSE {<<0, 0>>}

(***************************************************************************)
(* The calendar the clock follows: the Gregorian rules, independent of the *)
(* driver's tables.                                                        *)
(***************************************************************************)
GregorianLeap(y) == (y % 4 = 0 /\ y % 100 # 0) \/ y % 400 = 0

MonthLength(y, m) ==
    IF m = 2 THEN (IF GregorianLeap(y) THEN 29 ELSE 28)
    ELSE IF m \in {4, 6, 9, 11} THEN 30 ELSE 31

\* The instants of a day the clock stops at, as seconds since midnight: the
\* first and the last second of every day, and on the first day of a month
\* also the seconds around the first minute and hour rollovers.
Marks == <<0, 59, 60, 3599, 3600, 86399>>

\* Seconds since 1970-01-01T00:00:00 of the clock's instant.
ClockSeconds(c) == U32Add(U32Mul(U32Mul(U32Of(c.days * 24), 60), 60), Marks[c.mark])

\* The clock's instant as the application writes it into a DS3231_DateTime.
ClockDateTime(c, d) ==
    [d EXCEPT !.Year = c.Year, !.Month = c.Month, !.Date = c.Date, !.Day = c.Day,
              !.Hour_24mode = Marks[c.mark] \div 3600,
              !.Minute = (Marks[c.mark] % 3600) \div 60,
              !.Second = Marks[c.mark] % 60]

NextMark(c) ==
    IF c.mark < Len(Marks)
    THEN [c EXCEPT !.mark = IF c.Date = 1 THEN c.mark + 1 ELSE Len(Marks)]
    ELSE LET endOfMonth == c.Date = MonthLength(c.Year, c.Month)
             endOfYear  == endOfMonth /\ c.Month = 12
         IN  [days  |-> c.days + 1,
              mark  |-> 1,
              Year  |-> IF endOfYear THEN c.Year + 1 ELSE c.Year,
              Month |-> IF endOfYear THEN 1
                        ELSE IF endOfMonth THEN c.Month + 1 ELSE c.Month,
              Date  |-> IF endOfMonth THEN 1 ELSE c.Date + 1,
              Day   |-> (c.Day % 7) + 1]

(***************************************************************************)
(* The conversion cycle of the application.                                *)
(***************************************************************************)
RECURSIVE DaysToYear(_)
\* Days from 1970-01-01 to January 1 of year y; 1999-01-01 is day 10592.
DaysToYear(y) ==
    IF y <= 1999 THEN 10592
    ELSE DaysToYear(y - 1) + (IF GregorianLeap(y - 1) THEN 366 ELSE 365)

\* Midnight of January 1 of year y; 1970-01-01 was a Thursday (4, 1 = Monday).
NewYear(y) ==
    [days |-> DaysToYear(y), mark |-> 1, Year |-> y, Month |-> 1, Date |-> 1,
     Day |-> ((DaysToYear(y) + 3) % 7) + 1]

\* The application starts on January 1 of some year.
InitConv ==
    /\ \E y \in 1999..LastYear : clock = NewYear(y)
    /\ dt = ClockDateTime(clock,
                          [Day |-> 1, Date |-> 1, Month |-> 1, Year |-> 2000,
                           Hour_24mode |-> 0, Minute |-> 0, Second |-> 0, Enable |-> 1])
    /\ unixtime = U32Of(12345)
    /\ last = [dt |-> dt, ts |-> ClockSeconds(clock), unixtime |-> U32Of(12345)]
    /\ NoTasks
    /\ pc = "set"
    /\ ret = "none"
    /\ regs = [a \in 0..18 |-> 0]
    /\ call = [fn |-> "none", arg |-> 0]
    /\ bus = <<>>

\* Time passes; the application fills dt with the new instant.
Tick ==
    /\ pc = "date"
    /\ NextMark(clock).Year <= LastYear
    /\ (NextMark(clock).days * 675) + (Marks[NextMark(clock).mark] \div 128) < 65536 * 512
    /\ clock' = NextMark(clock)
    /\ dt' = ClockDateTime(clock', dt)
    /\ last' = [dt |-> ClockDateTime(clock, dt), ts |-> ClockSeconds(clock),
                unixtime |-> unixtime]
    /\ pc' = "set"
    /\ UNCHANGED <<unixtime, ret, regVars, taskVars>>

ToUnixTime ==
    /\ pc = "set"
    /\ unixtime' = DS3231_ToUnixTime(dt, unixtime)
    /\ pc' = "unix"
    /\ ret' = "void"
    /\ UNCHANGED <<clock, dt, last, regVars, taskVars>>

\* Outside 2000..2099 the application takes the timestamp from elsewhere.
LoadTimestamp ==
    /\ pc = "unix"
    /\ dt.Year < 2000 \/ dt.Year > 2099
    /\ unixtime' = ClockSeconds(clock)
    /\ pc' = "loaded"
    /\ UNCHANGED <<clock, dt, last, ret, regVars, taskVars>>

ToDateTime ==
    /\ (pc = "unix" /\ dt.Year >= 2000) \/ pc = "loaded"
    /\ \E zw \in PastTableBytes(unixtime) :
           dt' = DS3231_ToDateTime(unixtime, dt, AfterTable(zw[1]), zw[2])
    /\ pc' = "date"
    /\ ret' = "void"
    /\ UNCHANGED <<clock, unixtime, last, regVars, taskVars>>

Next == Tick \/ ToUnixTime \/ LoadTimestamp \/ ToDateTime

Spec == InitConv /\ [][Next]_vars

(***************************************************************************)
(* The register layer: addresses and bits of Include/DS3231.h.             *)
(***************************************************************************)
DS3231_REG_CONTROL == 14
DS3231_REG_STATUS == 15

DS3231_EOSC == 7
DS3231_BBSQW == 6
DS3231_RS1 == 3
DS3231_INTCN == 2
DS3231_A2IE == 1
DS3231_A1IE == 0

DS3231_A1F == 0
DS3231_A2F == 1
DS3231_EN32KHZ == 3

DS3231_SQUARE_WAVE_INTERRUPT == 0
DS3231_ALARM_INTERRUPT == 1
DS3231_DISABLED == 0
DS3231_ENABLED == 1

\* The values of HAL_StatusTypeDef that a failed bus transaction returns.
HAL_Failures == {"HAL_ERROR", "HAL_BUSY", "HAL_TIMEOUT"}

\* Bit n of x, and the bitwise operators of C on 8-bit values.
Bit(x, n) == (x \div (2 ^ n)) % 2

RECURSIVE BitAndFrom(_, _, _)
BitAndFrom(x, m, n) ==
    IF n > 7 THEN 0
    ELSE (Bit(x, n) * Bit(m, n) * (2 ^ n)) + BitAndFrom(x, m, n + 1)

BitAnd(x, m) == BitAndFrom(x, m, 0)

RECURSIVE BitOrFrom(_, _, _)
BitOrFrom(x, m, n) ==
    IF n > 7 THEN 0
    ELSE ((IF Bit(x, n) + Bit(m, n) > 0 THEN 1 ELSE 0) * (2 ^ n)) + BitOrFrom(x, m, n + 1)

BitOr(x, m) == BitOrFrom(x, m, 0)

(***************************************************************************)
(* The bus.  A driver call runs against b = [regs, log, faults, status]:   *)
(* the registers, the transactions issued so far, and the fate of the      *)
(* transactions of this call: the i-th one fails, with b.status, when i is *)
(* in b.faults.  A failed read leaves the caller's buffer as it was; a     *)
(* failed write leaves the register as it was.                             *)
(***************************************************************************)
Outcome(b) ==
    IF (Len(b.log) + 1) \in b.faults THEN b.status ELSE "HAL_OK"

\* The result carries *data as the call leaves it: the register when the
\* transaction succeeds, what the caller had there when it fails.
DS3231_ReadRegister(b, reg, data) ==
    [b      |-> [b EXCEPT !.log = Append(b.log, <<"read", reg, Outcome(b)>>)],
     status |-> Outcome(b),
     data   |-> IF Outcome(b) = "HAL_OK" THEN b.regs[reg] ELSE data]

\* A local of the driver that no statement has assigned yet.  Every function
\* of the driver returns after a failed read without using its buffer, so
\* the value is never an operand.
Uninitialized == "uninitialized"

UninitializedBuffer(len) == [i \in 1..len |-> Uninitialized]

DS3231_WriteRegister(b, reg, data) ==
    [b      |-> [b EXCEPT !.log = Append(b.log, <<"write", reg, Outcome(b)>>),
                          !.regs = IF Outcome(b) = "HAL_OK"
                                   THEN [b.regs EXCEPT ![reg] = data] ELSE b.regs],
     status |-> Outcome(b)]

\* What a function hands back: the bus after it, and its return value.
Return(b, status) == [b |-> b, status |-> status]

(***************************************************************************)
(* The accessors of the CONTROL and STATUS registers.                      *)
(***************************************************************************)
DS3231_SetBatterySquareWave(b, enable) ==
    LET r == DS3231_ReadRegister(b, DS3231_REG_CONTROL, Uninitialized)
        control == BitOr(BitAnd(r.data, 191), BitAnd(enable, 1) * (2 ^ DS3231_BBSQW))
        w == DS3231_WriteRegister(r.b, DS3231_REG_CONTROL, control)
    IN  IF r.status # "HAL_OK" THEN Return(r.b, r.status) ELSE Return(w.b, w.status)

\* control = (control & 0x7F) | ((!enable & 0x01) << DS3231_EOSC)
DS3231_SetOscillator(b, enable) ==
    LET r == DS3231_ReadRegister(b, DS3231_REG_CONTROL, Uninitialized)
        control == BitOr(BitAnd(r.data, 127),
                         BitAnd(IF enable = 0 THEN 1 ELSE 0, 1) * (2 ^ DS3231_EOSC))
        w == DS3231_WriteRegister(r.b, DS3231_REG_CONTROL, control)
    IN  IF r.status # "HAL_OK" THEN Return(r.b, r.status) ELSE Return(w.b, w.status)

DS3231_Set32kHzOutput(b, enable) ==
    LET r == DS3231_ReadRegister(b, DS3231_REG_STATUS, Uninitialized)
        temp == U8(BitOr(BitAnd(r.data, 247), enable * (2 ^ DS3231_EN32KHZ)))
        w == DS3231_WriteRegister(r.b, DS3231_REG_STATUS, temp)
    IN  IF r.status # "HAL_OK" THEN Return(r.b, r.status) ELSE Return(w.b, w.status)

DS3231_SetInterruptMode(b, mode) ==
    LET r == DS3231_ReadRegister(b, DS3231_REG_CONTROL, Uninitialized)
        control == BitOr(BitAnd(r.data, 251), BitAnd(mode, 1) * (2 ^ DS3231_INTCN))
        w == DS3231_WriteRegister(r.b, DS3231_REG_CONTROL, control)
    IN  IF r.status # "HAL_OK" THEN Return(r.b, r.status) ELSE Return(w.b, w.status)

\* The result carries *mode as the call leaves it: unwritten when the read
\* of CONTROL fails.
DS3231_GetInterruptMode(b, mode) ==
    LET r == DS3231_ReadRegister(b, DS3231_REG_CONTROL, Uninitialized)
    IN  IF r.status # "HAL_OK" THEN [b |-> r.b, status |-> r.status, mode |-> mode]
        ELSE [b |-> r.b, status |-> r.status, mode |-> Bit(r.data, DS3231_INTCN)]

\* The result carries *rate as the call leaves it: unwritten when the read
\* of CONTROL fails.
DS3231_GetRateSelect(b, rate) ==
    LET r == DS3231_ReadRegister(b, DS3231_REG_CONTROL, Uninitialized)
    IN  IF r.status # "HAL_OK" THEN [b |-> r.b, status |-> r.status, rate |-> rate]
        ELSE [b |-> r.b, status |-> r.status,
              rate |-> (r.data \div (2 ^ DS3231_RS1)) % 4]

DS3231_SetRateSelect(b, rate) ==
    LET r == DS3231_ReadRegister(b, DS3231_REG_CONTROL, Uninitialized)
        control == BitOr(BitAnd(r.data, 231), BitAnd(rate, 3) * (2 ^ DS3231_RS1))
        w == DS3231_WriteRegister(r.b, DS3231_REG_CONTROL, control)
    IN  IF r.status # "HAL_OK" THEN Return(r.b, r.status)
        ELSE IF w.status # "HAL_OK" THEN Return(w.b, w.status)
        ELSE DS3231_SetInterruptMode(w.b, DS3231_ALARM_INTERRUPT)

\* The status of the write is dropped: `status` still holds what the read
\* returned when it is tested after the write.
DS3231_SetAlarm1IntEn(b, enable) ==
    LET r == DS3231_ReadRegister(b, DS3231_REG_CONTROL, Uninitialized)
        control == BitOr(BitAnd(r.data, 254), BitAnd(enable, 1) * (2 ^ DS3231_A1IE))
        w == DS3231_WriteRegister(r.b, DS3231_REG_CONTROL, control)
    IN  IF r.status # "HAL_OK" THEN Return(r.b, r.status)
        ELSE DS3231_SetInterruptMode(w.b, DS3231_ALARM_INTERRUPT)

DS3231_ClearAlarm1Flag(b) ==
    LET r == DS3231_ReadRegister(b, DS3231_REG_STATUS, Uninitialized)
        control == BitAnd(r.data, 255 - (2 ^ DS3231_A1F))
        w == DS3231_WriteRegister(r.b, DS3231_REG_STATUS, control)
    IN  IF r.status # "HAL_OK" THEN Return(r.b, r.status) ELSE Return(w.b, w.status)

DS3231_SetAlarm2IntEn(b, enable) ==
    LET r == DS3231_ReadRegister(b, DS3231_REG_CONTROL, Uninitialized)
        control == BitOr(BitAnd(r.data, 253), BitAnd(enable, 1) * (2 ^ DS3231_A2IE))
        w == DS3231_WriteRegister(r.b, DS3231_REG_CONTROL, control)
    IN  IF r.status # "HAL_OK" THEN Return(r.b, r.status)
        ELSE IF w.status # "HAL_OK" THEN Return(w.b, w.status)
        ELSE DS3231_SetInterruptMode(w.b, DS3231_ALARM_INTERRUPT)

DS3231_ClearAlarm2Flag(b) ==
    LET r == DS3231_ReadRegister(b, DS3231_REG_STATUS, Uninitialized)
        control == BitAnd(r.data, 255 - (2 ^ DS3231_A2F))
        w == DS3231_WriteRegister(r.b, DS3231_REG_STATUS, control)
    IN  IF r.status # "HAL_OK" THEN Return(r.b, r.status) ELSE Return(w.b, w.status)

DS3231_Init(b) ==
    LET s1 == DS3231_SetAlarm1IntEn(b, DS3231_DISABLED)
        s2 == DS3231_SetAlarm2IntEn(s1.b, DS3231_DISABLED)
        s3 == DS3231_ClearAlarm1Flag(s2.b)
        s4 == DS3231_ClearAlarm2Flag(s3.b)
    IN  IF s1.status # "HAL_OK" THEN s1
        ELSE IF s2.status # "HAL_OK" THEN s2
        ELSE IF s3.status # "HAL_OK" THEN s3
        ELSE IF s4.status # "HAL_OK" THEN s4
        ELSE DS3231_Set32kHzOutput(s4.b, DS3231_DISABLED)

(***************************************************************************)
(* The timekeeping registers: BCD coding and the transfers of several      *)
(* consecutive registers.                                                  *)
(***************************************************************************)
DS3231_REG_SECOND == 0

\* uint8_t DS3231_DecodeBCD(uint8_t bin)
DS3231_DecodeBCD(bin) == U8(((BitAnd(U8(bin), 240) \div 16) * 10) + BitAnd(U8(bin), 15))

\* A coding that stores the binary value as it is.
EncodeBinary(dec) == U8(dec)

\* uint8_t DS3231_EncodeBCD(uint8_t dec)
DS3231_EncodeBCD(dec) == U8((U8(dec) % 10) + ((U8(dec) \div 10) * 16))

\* One transaction writes data[1..len] to the registers reg .. reg + len - 1.
DS3231_WriteRegisters(b, reg, data, len) ==
    [b      |-> [b EXCEPT !.log = Append(b.log, <<"write", reg, Outcome(b)>>),
                          !.regs = IF Outcome(b) = "HAL_OK"
                                   THEN [a \in DOMAIN b.regs |->
                                            IF a >= reg /\ a < reg + len
                                            THEN data[(a - reg) + 1] ELSE b.regs[a]]
                                   ELSE b.regs],
     status |-> Outcome(b)]

\* One transaction reads the registers reg .. reg + len - 1 into data[1..len];
\* when it fails, data is left as the caller had it.
DS3231_ReadRegisters(b, reg, data, len) ==
    [b      |-> [b EXCEPT !.log = Append(b.log, <<"read", reg, Outcome(b)>>)],
     status |-> Outcome(b),
     data   |-> IF Outcome(b) = "HAL_OK"
                THEN [i \in 1..len |-> b.regs[(reg + i) - 1]]
                ELSE data]

\* A legality test that accepts a field only inside both of its limits.
LegalityConjunction(atLeast, atMost) == atLeast /\ atMost

\* The legality tests of DS3231_SetDateTime: (field >= low) | (field <= high).
LegalityCheck(atLeast, atMost) == atLeast \/ atMost

\* buffer[0..6] of DS3231_SetDateTime, as buffer[1..7].
DateTimeBuffer(d) ==
    <<DS3231_EncodeBCD(d.Second),
      DS3231_EncodeBCD(d.Minute),
      DS3231_EncodeBCD(d.Hour_24mode),
      DS3231_EncodeBCD(d.Day),
      DS3231_EncodeBCD(d.Date),
      DS3231_EncodeBCD(d.Month),
      DS3231_EncodeBCD(d.Year - 2000)>>

DS3231_SetDateTime(b, d) ==
    LET w == DS3231_WriteRegisters(b, DS3231_REG_SECOND, DateTimeBuffer(d), 7)
        r == DS3231_ReadRegister(w.b, DS3231_REG_CONTROL, Uninitialized)
        regCONTROL == IF d.Enable = DS3231_ENABLED
                      THEN BitAnd(r.data, 127) ELSE BitOr(r.data, 128)
        c == DS3231_WriteRegister(r.b, DS3231_REG_CONTROL, regCONTROL)
    IN  IF ~LegalityCheck(d.Day >= 1, d.Day <= 7) THEN Return(b, "HAL_ERROR")
        ELSE IF ~LegalityCheck(d.Date >= 1, d.Date <= 31) THEN Return(b, "HAL_ERROR")
        ELSE IF ~LegalityCheck(d.Month >= 1, d.Month <= 12) THEN Return(b, "HAL_ERROR")
        ELSE IF ~LegalityCheck(d.Year >= 0, d.Year <= 99) THEN Return(b, "HAL_ERROR")
        ELSE IF ~LegalityCheck(d.Hour_24mode >= 0, d.Hour_24mode <= 23)
             THEN Return(b, "HAL_ERROR")
        ELSE IF ~LegalityCheck(d.Minute >= 0, d.Minute <= 59) THEN Return(b, "HAL_ERROR")
        ELSE IF ~LegalityCheck(d.Second >= 0, d.Second <= 59) THEN Return(b, "HAL_ERROR")
        ELSE IF w.status # "HAL_OK" THEN Return(w.b, w.status)
        ELSE IF r.status # "HAL_OK" THEN Return(r.b, r.status)
        ELSE Return(c.b, c.status)

\* The result carries *dt as the call leaves it: untouched when the first
\* read fails, with the old Enable when the read of STATUS fails.
DS3231_GetDateTime(b, d) ==
    LET r == DS3231_ReadRegisters(b, DS3231_REG_SECOND, UninitializedBuffer(7), 7)
        buffer == r.data
        fields == [d EXCEPT !.Second = DS3231_DecodeBCD(BitAnd(buffer[1], 127)),
                            !.Minute = DS3231_DecodeBCD(BitAnd(buffer[2], 127)),
                            !.Hour_24mode = DS3231_DecodeBCD(BitAnd(buffer[3], 63)),
                            !.Day = DS3231_DecodeBCD(BitAnd(buffer[4], 7)),
                            !.Date = DS3231_DecodeBCD(BitAnd(buffer[5], 63)),
                            !.Month = DS3231_DecodeBCD(BitAnd(buffer[6], 31)),
                            !.Year = U16(DS3231_DecodeBCD(buffer[7]) + 2000)]
        s == DS3231_ReadRegister(r.b, DS3231_REG_STATUS, Uninitialized)
        regSTATUS == BitAnd(s.data, 128) \div (2 ^ DS3231_EOSC)
    IN  IF r.status # "HAL_OK" THEN [b |-> r.b, status |-> r.status, dt |-> d]
        ELSE IF s.status # "HAL_OK" THEN [b |-> s.b, status |-> s.status, dt |-> fields]
        ELSE [b |-> s.b, status |-> s.status,
              dt |-> [fields EXCEPT !.Enable = IF regSTATUS # 0 THEN DS3231_DISABLED
                                               ELSE DS3231_ENABLED]]

(***************************************************************************)
(* The alarm registers.  A configuration is a D3231_Alarm1 structure       *)
(* [Seconds, Minutes, Hours, DayDate, Mode, IntEn], or a D3231_Alarm2      *)
(* structure [Minutes, Hours, DayDate, Mode, IntEn].                       *)
(***************************************************************************)
DS3231_REG_A1_SECOND == 7
DS3231_REG_A2_MINUTE == 11

\* data[0..3] of DS3231_SetAlarm1, as data[1..4].
Alarm1Data(A1_st) ==
    LET A1M1 == U8(BitAnd(A1_st.Mode, 1) * 128)
        A1M2 == U8(BitAnd(A1_st.Mode, 2) * 64)
        A1M3 == U8(BitAnd(A1_st.Mode, 4) * 32)
        A1M4 == U8(BitAnd(A1_st.Mode, 8) * 16)
        DY_DT == U8(BitAnd(A1_st.Mode, 16) * 4)
    IN  <<BitOr(DS3231_EncodeBCD(A1_st.Seconds), A1M1),
          BitOr(DS3231_EncodeBCD(A1_st.Minutes), A1M2),
          BitOr(DS3231_EncodeBCD(A1_st.Hours), A1M3),
          BitOr(BitOr(DS3231_EncodeBCD(A1_st.DayDate), DY_DT), A1M4)>>

DS3231_SetAlarm1(b, A1_st) ==
    LET w == DS3231_WriteRegisters(b, DS3231_REG_A1_SECOND, Alarm1Data(A1_st), 4)
    IN  IF w.status # "HAL_OK" THEN Return(w.b, w.status)
        ELSE DS3231_SetAlarm1IntEn(w.b, A1_st.IntEn)

\* What DS3231_GetAlarm1 stores in *A1_st from data[0..3], here data[1..4].
Alarm1Fields(data, A1_st) ==
    LET Mode == (BitAnd(data[1], 128) \div 128)
                + (BitAnd(data[2], 128) \div 64)
                + (BitAnd(data[3], 128) \div 32)
                + (BitAnd(data[4], 128) \div 16)
                + (BitAnd(data[4], 64) \div 4)
        DayDate == BitAnd(data[4], 64) \div 64
    IN  [A1_st EXCEPT !.Mode = Mode,
                      !.Seconds = DS3231_DecodeBCD(BitAnd(data[1], 127)),
                      !.Minutes = DS3231_DecodeBCD(BitAnd(data[2], 127)),
                      !.Hours = DS3231_DecodeBCD(BitAnd(data[3], 63)),
                      !.DayDate = IF DayDate # 0
                                  THEN DS3231_DecodeBCD(BitAnd(data[4], 15))
                                  ELSE DS3231_DecodeBCD(BitAnd(data[4], 63))]

\* A read of CONTROL whose result is not stored in *enable.
GetAlarm1IntEnUnstored(b, enable) ==
    LET r == DS3231_ReadRegister(b, DS3231_REG_CONTROL, Uninitialized)
    IN  [b |-> r.b, status |-> r.status, enable |-> enable]

\* The result carries *enable as the call leaves it.
DS3231_GetAlarm1IntEn(b, enable) ==
    LET r == DS3231_ReadRegister(b, DS3231_REG_CONTROL, Uninitialized)
    IN  IF r.status # "HAL_OK" THEN [b |-> r.b, status |-> r.status, enable |-> enable]
        ELSE [b |-> r.b, status |-> r.status, enable |-> Bit(r.data, DS3231_A1IE)]

\* The result carries *A1_st as the call leaves it.
DS3231_GetAlarm1(b, A1_st) ==
    LET r == DS3231_ReadRegisters(b, DS3231_REG_A1_SECOND, UninitializedBuffer(4), 4)
        fields == Alarm1Fields(r.data, A1_st)
        e == DS3231_GetAlarm1IntEn(r.b, fields.IntEn)
    IN  IF r.status # "HAL_OK" THEN [b |-> r.b, status |-> r.status, A1_st |-> A1_st]
        ELSE [b |-> e.b, status |-> e.status, A1_st |-> [fields EXCEPT !.IntEn = e.enable]]

\* data[0..2] of DS3231_SetAlarm2, as data[1..3].
Alarm2Data(A2_st) ==
    LET A2M2 == U8(BitAnd(A2_st.Mode, 1) * 128)
        A2M3 == U8(BitAnd(A2_st.Mode, 2) * 64)
        A2M4 == U8(BitAnd(A2_st.Mode, 4) * 32)
        DY_DT == U8(BitAnd(A2_st.Mode, 8) * 8)
    IN  <<BitOr(DS3231_EncodeBCD(A2_st.Minutes), A2M2),
          BitOr(DS3231_EncodeBCD(A2_st.Hours), A2M3),
          BitOr(BitOr(DS3231_EncodeBCD(A2_st.DayDate), DY_DT), A2M4)>>

DS3231_SetAlarm2(b, A2_st) ==
    LET w == DS3231_WriteRegisters(b, DS3231_REG_A2_MINUTE, Alarm2Data(A2_st), 3)
    IN  IF w.status # "HAL_OK" THEN Return(w.b, w.status)
        ELSE DS3231_SetAlarm2IntEn(w.b, A2_st.IntEn)

(***************************************************************************)
(* The application calling the register layer.                             *)
(***************************************************************************)
RECURSIVE FaultSets(_, _)
\* The sets of at most m transactions, among the first n of a call, that fail.
FaultSets(n, m) ==
    IF m = 0 THEN {{}}
    ELSE FaultSets(n, m - 1) \cup {F \cup {i} : F \in FaultSets(n, m - 1), i \in 1..n}

\* The bus a call of at most n transactions can meet.
Buses(n) ==
    {[regs |-> regs, log |-> <<>>, faults |-> F, status |-> st] :
        F \in FaultSets(n, MaxFaults), st \in HAL_Failures}

\* The call returns: its effect on the registers, its transactions, its value.
Returns(fn, arg, r) ==
    /\ regs' = r.b.regs
    /\ bus' = r.b.log
    /\ ret' = r.status
    /\ call' = [fn |-> fn, arg |-> arg]
    /\ pc' = "returned"
    /\ UNCHANGED <<convVars, taskVars>>

CallInit ==
    /\ pc = "idle"
    /\ \E b \in Buses(14) : Returns("Init", 0, DS3231_Init(b))

CallSetRateSelect ==
    /\ pc = "idle"
    /\ \E b \in Buses(4), rate \in 0..3 :
           Returns("SetRateSelect", rate, DS3231_SetRateSelect(b, rate))

CallSetInterruptMode ==
    /\ pc = "idle"
    /\ \E b \in Buses(2), mode \in {DS3231_SQUARE_WAVE_INTERRUPT, DS3231_ALARM_INTERRUPT} :
           Returns("SetInterruptMode", mode, DS3231_SetInterruptMode(b, mode))

CallSetBatterySquareWave ==
    /\ pc = "idle"
    /\ \E b \in Buses(2), enable \in {DS3231_DISABLED, DS3231_ENABLED} :
           Returns("SetBatterySquareWave", enable, DS3231_SetBatterySquareWave(b, enable))

CallSetAlarm1IntEn ==
    /\ pc = "idle"
    /\ \E b \in Buses(4), enable \in {DS3231_DISABLED, DS3231_ENABLED} :
           Returns("SetAlarm1IntEn", enable, DS3231_SetAlarm1IntEn(b, enable))

CallSetAlarm2IntEn ==
    /\ pc = "idle"
    /\ \E b \in Buses(4), enable \in {DS3231_DISABLED, DS3231_ENABLED} :
           Returns("SetAlarm2IntEn", enable, DS3231_SetAlarm2IntEn(b, enable))

CallSetOscillator ==
    /\ pc = "idle"
    /\ \E b \in Buses(2), enable \in {DS3231_DISABLED, DS3231_ENABLED} :
           Returns("SetOscillator", enable, DS3231_SetOscillator(b, enable))

CallSet32kHzOutput ==
    /\ pc = "idle"
    /\ \E b \in Buses(2), enable \in {DS3231_DISABLED, DS3231_ENABLED} :
           Returns("Set32kHzOutput", enable, DS3231_Set32kHzOutput(b, enable))

CallClearAlarm1Flag ==
    /\ pc = "idle"
    /\ \E b \in Buses(2) : Returns("ClearAlarm1Flag", 0, DS3231_ClearAlarm1Flag(b))

CallClearAlarm2Flag ==
    /\ pc = "idle"
    /\ \E b \in Buses(2) : Returns("ClearAlarm2Flag", 0, DS3231_ClearAlarm2Flag(b))

\* call.arg is *mode as the call leaves it.
CallGetInterruptMode ==
    /\ pc = "idle"
    /\ \E b \in Buses(1), mode \in {DS3231_SQUARE_WAVE_INTERRUPT, DS3231_ALARM_INTERRUPT} :
           LET r == DS3231_GetInterruptMode(b, mode)
           IN  Returns("GetInterruptMode", r.mode, r)

\* call.arg is *rate as the call leaves it.
CallGetRateSelect ==
    /\ pc = "idle"
    /\ \E b \in Buses(1), rate \in 0..3 :
           LET r == DS3231_GetRateSelect(b, rate)
           IN  Returns("GetRateSelect", r.rate, r)

\* The application writes a register itself: the first timekeeping register,
\* CONTROL or STATUS, with every bit clear or every bit set.
CallWriteRegister ==
    /\ pc = "idle"
    /\ \E b \in Buses(1),
          reg \in {DS3231_REG_SECOND, DS3231_REG_CONTROL, DS3231_REG_STATUS},
          data \in {0, 255} :
           Returns("WriteRegister", <<reg, data>>, DS3231_WriteRegister(b, reg, data))

\* The application writes one or two consecutive registers itself.
CallWriteRegisters ==
    /\ pc = "idle"
    /\ \E b \in Buses(1), reg \in {DS3231_REG_SECOND, DS3231_REG_CONTROL},
          len \in 1..2, v \in {0, 255} :
           LET data == [i \in 1..len |-> v]
           IN  Returns("WriteRegisters", <<reg, data, len>>,
                       DS3231_WriteRegisters(b, reg, data, len))

\* The application goes on to its next call.
Continue ==
    /\ pc = "returned"
    /\ pc' = "idle"
    /\ call' = [fn |-> "none", arg |-> 0]
    /\ bus' = <<>>
    /\ ret' = "none"
    /\ UNCHANGED <<regs, convVars, taskVars>>

(***************************************************************************)
(* The application setting the clock and reading it back:                  *)
(*     DS3231_SetDateTime(&dt); DS3231_GetDateTime(&dt);                   *)
(***************************************************************************)
\* How far beyond its legal limits each field of the date-time is taken.
MaxOver == 1

\* A date-time inside every limit, of which the inputs vary the fields.
BaseDateTime ==
    [Day |-> 1, Date |-> 1, Month |-> 1, Year |-> 2000,
     Hour_24mode |-> 0, Minute |-> 0, Second |-> 0, Enable |-> DS3231_ENABLED]

\* The values a uint8_t field with legal range lo..hi is given.
FieldValues(lo, hi) == (0..(hi + MaxOver)) \cup {255 - MaxOver, 255}

\* The structures the application passes to DS3231_SetDateTime: each field
\* over its whole legal range and beyond it, the other fields legal; and
\* structures with every field at or beyond a limit.
DateTimes ==
    {[BaseDateTime EXCEPT !.Day = v] : v \in FieldValues(1, 7)}
    \cup {[BaseDateTime EXCEPT !.Date = v] : v \in FieldValues(1, 31)}
    \cup {[BaseDateTime EXCEPT !.Month = v] : v \in FieldValues(1, 12)}
    \cup {[BaseDateTime EXCEPT !.Year = v] :
            v \in ((2000 - MaxOver)..(2099 + MaxOver)) \cup {0, 99, 65535}}
    \cup {[BaseDateTime EXCEPT !.Hour_24mode = v] : v \in FieldValues(0, 23)}
    \cup {[BaseDateTime EXCEPT !.Minute = v] : v \in FieldValues(0, 59)}
    \cup {[BaseDateTime EXCEPT !.Second = v] : v \in FieldValues(0, 59)}
    \cup {[Day |-> 7, Date |-> 31, Month |-> 12, Year |-> 2099,
           Hour_24mode |-> 23, Minute |-> 59, Second |-> 59, Enable |-> e] :
            e \in {DS3231_DISABLED, DS3231_ENABLED}}
    \cup {[Day |-> 3, Date |-> 29, Month |-> 2, Year |-> 2024,
           Hour_24mode |-> 12, Minute |-> 34, Second |-> 56, Enable |-> e] :
            e \in {DS3231_DISABLED, DS3231_ENABLED}}
    \cup {[Day |-> 0, Date |-> 0, Month |-> 13, Year |-> 1999,
           Hour_24mode |-> 24, Minute |-> 60, Second |-> 255, Enable |-> DS3231_DISABLED],
          [Day |-> 255, Date |-> 32, Month |-> 255, Year |-> 2100,
           Hour_24mode |-> 255, Minute |-> 99, Second |-> 100, Enable |-> DS3231_ENABLED],
          [Day |-> 8, Date |-> 40, Month |-> 20, Year |-> 65535,
           Hour_24mode |-> 30, Minute |-> 80, Second |-> 128, Enable |-> DS3231_DISABLED]}

\* The bus a call of at most n transactions can meet when it follows the
\* transactions already in the log.
BusesAfter(log, n) ==
    {[regs |-> regs, log |-> log, faults |-> {Len(log) + i : i \in F}, status |-> st] :
        F \in FaultSets(n, MaxFaults), st \in HAL_Failures}

CallSetDateTime ==
    /\ pc = "idle"
    /\ \E b \in Buses(3) :
           LET r == DS3231_SetDateTime(b, dt)
           IN  /\ regs' = r.b.regs
               /\ bus' = r.b.log
               /\ ret' = r.status
               /\ call' = [fn |-> "SetDateTime", arg |-> dt]
    /\ pc' = "returned"
    /\ UNCHANGED <<convVars, taskVars>>

\* The read-back: its transactions follow those of DS3231_SetDateTime in
\* the log, and call.arg still holds the date-time that was set.
CallGetDateTime ==
    /\ pc = "returned"
    /\ call.fn = "SetDateTime"
    /\ \E b \in BusesAfter(bus, 2) :
           LET r == DS3231_GetDateTime(b, dt)
           IN  /\ regs' = r.b.regs
               /\ bus' = r.b.log
               /\ ret' = r.status
               /\ dt' = r.dt
    /\ call' = [fn |-> "GetDateTime", arg |-> call.arg]
    /\ pc' = "returned"
    /\ UNCHANGED <<clock, unixtime, last, taskVars>>

\* The registers the application finds, and the date-time it wants to set.
InitTime ==
    /\ \E cs \in {<<28, 0>>, <<156, 136>>} :
           regs = [a \in 0..18 |-> IF a = DS3231_REG_CONTROL THEN cs[1]
                                  ELSE IF a = DS3231_REG_STATUS THEN cs[2] ELSE 0]
    /\ dt \in DateTimes
    /\ call = [fn |-> "none", arg |-> 0]
    /\ bus = <<>>
    /\ ret = "none"
    /\ pc = "idle"
    /\ clock = NewYear(2000)
    /\ unixtime = U32Of(0)
    /\ last = [dt |-> BaseDateTime, ts |-> ClockSeconds(clock), unixtime |-> unixtime]
    /\ NoTasks

NextTime ==
    \/ CallSetDateTime
    \/ CallGetDateTime
    \/ Continue

SpecTime == InitTime /\ [][NextTime]_vars

(***************************************************************************)
(* The application calling the driver: every function that changes a       *)
(* register, and the two readers of CONTROL.                               *)
(***************************************************************************)
\* The D3231_Alarm1 structures the application uses: a match on the date, an
\* alarm every second, a match on the day of the week.
Alarm1Configs ==
    {[Seconds |-> 30, Minutes |-> 45, Hours |-> 7, DayDate |-> 15, Mode |-> 0,
      IntEn |-> DS3231_ENABLED],
     [Seconds |-> 0, Minutes |-> 0, Hours |-> 0, DayDate |-> 1, Mode |-> 15,
      IntEn |-> DS3231_DISABLED],
     [Seconds |-> 59, Minutes |-> 59, Hours |-> 23, DayDate |-> 7, Mode |-> 16,
      IntEn |-> DS3231_ENABLED]}

\* The D3231_Alarm2 structures the application uses.
Alarm2Configs ==
    {[Minutes |-> 30, Hours |-> 12, DayDate |-> 28, Mode |-> 0, IntEn |-> DS3231_ENABLED],
     [Minutes |-> 0, Hours |-> 0, DayDate |-> 1, Mode |-> 7, IntEn |-> DS3231_DISABLED]}

CallSetAlarm1 ==
    /\ pc = "idle"
    /\ \E b \in Buses(5), A1_st \in Alarm1Configs :
           Returns("SetAlarm1", A1_st, DS3231_SetAlarm1(b, A1_st))

CallSetAlarm2 ==
    /\ pc = "idle"
    /\ \E b \in Buses(5), A2_st \in Alarm2Configs :
           Returns("SetAlarm2", A2_st, DS3231_SetAlarm2(b, A2_st))

\* The byte a STATUS register made of the flags A1F, A2F, EN32kHz and OSF holds.
StatusBytes ==
    {a + (2 * c) + (8 * e) + (128 * o) : a \in 0..1, c \in 0..1, e \in 0..1, o \in 0..1}

\* The date-time and the alarms a device configured earlier holds.
EarlierDateTime ==
    [Day |-> 3, Date |-> 29, Month |-> 2, Year |-> 2024,
     Hour_24mode |-> 12, Minute |-> 34, Second |-> 56, Enable |-> DS3231_DISABLED]

EarlierAlarm1 ==
    [Seconds |-> 59, Minutes |-> 59, Hours |-> 23, DayDate |-> 7, Mode |-> 16,
     IntEn |-> DS3231_ENABLED]

EarlierAlarm2 ==
    [Minutes |-> 30, Hours |-> 12, DayDate |-> 28, Mode |-> 0, IntEn |-> DS3231_ENABLED]

\* The timekeeping and alarm registers of a device: never configured, with
\* every one of them 0, or configured earlier.  With each goes the date-time
\* the application is about to set.
Devices ==
    {[regs |-> [a \in 0..13 |-> 0], dt |-> BaseDateTime],
     [regs |-> [a \in 0..13 |->
                   IF a < DS3231_REG_A1_SECOND
                   THEN DateTimeBuffer(EarlierDateTime)[(a - DS3231_REG_SECOND) + 1]
                   ELSE IF a < DS3231_REG_A2_MINUTE
                        THEN Alarm1Data(EarlierAlarm1)[(a - DS3231_REG_A1_SECOND) + 1]
                        ELSE Alarm2Data(EarlierAlarm2)[(a - DS3231_REG_A2_MINUTE) + 1]],
      dt |-> [Day |-> 7, Date |-> 31, Month |-> 12, Year |-> 2099,
              Hour_24mode |-> 23, Minute |-> 59, Second |-> 59,
              Enable |-> DS3231_DISABLED]]}

\* The registers the application finds: any CONTROL byte, any STATUS byte
\* made of the flags A1F, A2F, EN32kHz and OSF, and the timekeeping and alarm
\* registers of one of the devices.
InitReg ==
    /\ \E control \in 0..255, status \in StatusBytes, device \in Devices :
           /\ regs = [a \in 0..18 |-> IF a = DS3231_REG_CONTROL THEN control
                                      ELSE IF a = DS3231_REG_STATUS THEN status
                                      ELSE IF a \in DOMAIN device.regs THEN device.regs[a]
                                      ELSE 0]
           /\ dt = device.dt
    /\ call = [fn |-> "none", arg |-> 0]
    /\ bus = <<>>
    /\ ret = "none"
    /\ pc = "idle"
    /\ clock = NewYear(2000)
    /\ unixtime = U32Of(0)
    /\ last = [dt |-> BaseDateTime, ts |-> ClockSeconds(clock), unixtime |-> unixtime]
    /\ NoTasks

\* The registers are again among those InitReg draws.
FoundAgain ==
    /\ regs[DS3231_REG_STATUS] \in StatusBytes
    /\ \E device \in Devices :
           /\ \A a \in DOMAIN device.regs : regs[a] = device.regs[a]
           /\ dt = device.dt
    /\ \A a \in 16..18 : regs[a] = 0

\* The application goes on to its next call.  The register contents explored
\* are bounded to those InitReg draws: a call that leaves the timekeeping
\* or alarm registers with other contents is the last one of its behaviour.
ContinueReg ==
    /\ FoundAgain
    /\ Continue

NextReg ==
    \/ ContinueReg
    \/ CallInit
    \/ CallSetBatterySquareWave
    \/ CallSetOscillator
    \/ CallSet32kHzOutput
    \/ CallSetInterruptMode
    \/ CallGetInterruptMode
    \/ CallSetRateSelect
    \/ CallGetRateSelect
    \/ CallSetAlarm1
    \/ CallSetAlarm1IntEn
    \/ CallClearAlarm1Flag
    \/ CallSetAlarm2
    \/ CallSetAlarm2IntEn
    \/ CallClearAlarm2Flag
    \/ CallSetDateTime
    \/ CallWriteRegister
    \/ CallWriteRegisters

SpecReg == InitReg /\ [][NextReg]_vars

(***************************************************************************)
(* Two tasks of the application: one calls DS3231_SetAlarm1, the other     *)
(* DS3231_GetAlarm1.  Each bus transaction is one step, the tasks run in   *)
(* any order, and every transaction succeeds.  When the application uses   *)
(* its lock, a task holds it from its call to its return.                  *)
(***************************************************************************)
\* One transaction of DS3231_SetAlarm1; t.pc is the transaction to issue:
\* 1 the write of the alarm registers, 2 and 3 the read and the write of
\* DS3231_SetAlarm1IntEn, 4 and 5 those of DS3231_SetInterruptMode; 6 is
\* the return.  Transaction 3 leaves `status` as the read set it.
SetAlarm1Step(t, b) ==
    CASE t.pc = 1 ->
           LET w == DS3231_WriteRegisters(b, DS3231_REG_A1_SECOND, Alarm1Data(t.A1_st), 4)
           IN  [b |-> w.b,
                t |-> [t EXCEPT !.status = w.status,
                                !.pc = IF w.status # "HAL_OK" THEN 6 ELSE 2]]
      [] t.pc = 2 ->
           LET r == DS3231_ReadRegister(b, DS3231_REG_CONTROL, Uninitialized)
           IN  [b |-> r.b,
                t |-> IF r.status # "HAL_OK"
                      THEN [t EXCEPT !.status = r.status, !.pc = 6]
                      ELSE [t EXCEPT !.status = r.status, !.pc = 3,
                                     !.control = BitOr(BitAnd(r.data, 254),
                                                       BitAnd(t.A1_st.IntEn, 1)
                                                           * (2 ^ DS3231_A1IE))]]
      [] t.pc = 3 ->
           LET w == DS3231_WriteRegister(b, DS3231_REG_CONTROL, t.control)
           IN  [b |-> w.b,
                t |-> [t EXCEPT !.pc = IF t.status # "HAL_OK" THEN 6 ELSE 4]]
      [] t.pc = 4 ->
           LET r == DS3231_ReadRegister(b, DS3231_REG_CONTROL, Uninitialized)
           IN  [b |-> r.b,
                t |-> IF r.status # "HAL_OK"
                      THEN [t EXCEPT !.status = r.status, !.pc = 6]
                      ELSE [t EXCEPT !.status = r.status, !.pc = 5,
                                     !.control = BitOr(BitAnd(r.data, 251),
                                                       BitAnd(DS3231_ALARM_INTERRUPT, 1)
                                                           * (2 ^ DS3231_INTCN))]]
      [] t.pc = 5 ->
           LET w == DS3231_WriteRegister(b, DS3231_REG_CONTROL, t.control)
           IN  [b |-> w.b, t |-> [t EXCEPT !.status = w.status, !.pc = 6]]

\* One transaction of DS3231_GetAlarm1; t.pc is the transaction to issue:
\* 1 the read of the alarm registers, 2 the read of DS3231_GetAlarm1IntEn;
\* 3 is the return.
GetAlarm1Step(t, b) ==
    CASE t.pc = 1 ->
           LET r == DS3231_ReadRegisters(b, DS3231_REG_A1_SECOND, UninitializedBuffer(4), 4)
           IN  [b |-> r.b,
                t |-> IF r.status # "HAL_OK"
                      THEN [t EXCEPT !.status = r.status, !.pc = 3]
                      ELSE [t EXCEPT !.status = r.status, !.pc = 2,
                                     !.A1_st = Alarm1Fields(r.data, t.A1_st)]]
      [] t.pc = 2 ->
           LET e == DS3231_GetAlarm1IntEn(b, t.A1_st.IntEn)
           IN  [b |-> e.b,
                t |-> [t EXCEPT !.status = e.status, !.pc = 3, !.A1_st.IntEn = e.enable]]

\* The bus of the next transaction: every transaction succeeds.
SharedBus == [regs |-> regs, log |-> bus, faults |-> {}, status |-> "HAL_ERROR"]

\* A task may enter the driver: it needs the lock if the application uses one.
MayEnter == mutex.used => mutex.owner = "none"

SetAlarm1Call ==
    /\ setter.pc = 0
    /\ MayEnter
    /\ setter' = [setter EXCEPT !.pc = 1]
    /\ mutex' = IF mutex.used THEN [mutex EXCEPT !.owner = "setter"] ELSE mutex
    /\ UNCHANGED <<getter, before, regs, bus, call, pc, ret, convVars>>

SetAlarm1Transaction ==
    /\ setter.pc \in 1..5
    /\ LET r == SetAlarm1Step(setter, SharedBus)
       IN  /\ setter' = r.t
           /\ regs' = r.b.regs
           /\ bus' = r.b.log
           /\ mutex' = IF r.t.pc = 6 THEN [mutex EXCEPT !.owner = "none"] ELSE mutex
    /\ UNCHANGED <<getter, before, call, pc, ret, convVars>>

GetAlarm1Call ==
    /\ getter.pc = 0
    /\ MayEnter
    /\ getter' = [getter EXCEPT !.pc = 1]
    /\ mutex' = IF mutex.used THEN [mutex EXCEPT !.owner = "getter"] ELSE mutex
    /\ UNCHANGED <<setter, before, regs, bus, call, pc, ret, convVars>>

GetAlarm1Transaction ==
    /\ getter.pc \in 1..2
    /\ LET r == GetAlarm1Step(getter, SharedBus)
       IN  /\ getter' = r.t
           /\ regs' = r.b.regs
           /\ bus' = r.b.log
           /\ mutex' = IF r.t.pc = 3 THEN [mutex EXCEPT !.owner = "none"] ELSE mutex
    /\ UNCHANGED <<setter, before, call, pc, ret, convVars>>

\* The registers that hold the alarm 1 configuration A1_st, INTCN being
\* intcn and every other register 0.
Alarm1Registers(A1_st, intcn) ==
    [a \in 0..18 |->
        IF a >= DS3231_REG_A1_SECOND /\ a < DS3231_REG_A1_SECOND + 4
        THEN Alarm1Data(A1_st)[(a - DS3231_REG_A1_SECOND) + 1]
        ELSE IF a = DS3231_REG_CONTROL
             THEN (A1_st.IntEn * (2 ^ DS3231_A1IE)) + (intcn * (2 ^ DS3231_INTCN))
             ELSE 0]

\* The device holds one configuration, the setter is about to set another,
\* and the application either uses its lock or does not.
InitAlarm ==
    /\ before \in Alarm1Configs
    /\ \E intcn \in {0, 1} : regs = Alarm1Registers(before, intcn)
    /\ \E A1_st \in Alarm1Configs \ {before} :
           setter = [pc |-> 0, A1_st |-> A1_st, control |-> 0, status |-> "none"]
    /\ getter = [pc |-> 0, A1_st |-> NoAlarm1, status |-> "none"]
    /\ \E used \in BOOLEAN : mutex = [used |-> used, owner |-> "none"]
    /\ call = [fn |-> "none", arg |-> 0]
    /\ bus = <<>>
    /\ ret = "none"
    /\ pc = "tasks"
    /\ dt = BaseDateTime
    /\ clock = NewYear(2000)
    /\ unixtime = U32Of(0)
    /\ last = [dt |-> BaseDateTime, ts |-> ClockSeconds(clock), unixtime |-> unixtime]

NextAlarm ==
    \/ SetAlarm1Call
    \/ SetAlarm1Transaction
    \/ GetAlarm1Call
    \/ GetAlarm1Transaction

SpecAlarm == InitAlarm /\ [][NextAlarm]_vars

(***************************************************************************)
(* Vocabulary of the properties.                                           *)
(***************************************************************************)
\* The true date-time of the clock's instant, in the shape of dt.
TrueDateTime == ClockDateTime(clock, dt)

InSupportedYears(y) == y >= 2000 /\ y <= 2099

\* DS3231_ToDateTime has just converted the result of DS3231_ToUnixTime(t),
\* t being the clock's instant, a valid date-time of 2000..2099.
RoundTripDone == pc = "date" /\ InSupportedYears(clock.Year)

\* DS3231_ToDateTime has just converted the timestamp of the clock's instant.
ConvertedTrueInstant == pc = "date" /\ unixtime = ClockSeconds(clock)

\* DS3231_ToUnixTime has just converted the clock's instant.
ToUnixTimeDone == pc = "unix"

ValidDateTime(d) ==
    /\ d.Month \in 1..12
    /\ d.Date >= 1
    /\ d.Date <= MonthLength(d.Year, d.Month)
    /\ d.Hour_24mode \in 0..23
    /\ d.Minute \in 0..59
    /\ d.Second \in 0..59
    /\ d.Day \in 1..7

LastDayOfMonth(c) == c.Date = MonthLength(c.Year, c.Month)

U32Less(x, y) == x[1] < y[1] \/ (x[1] = y[1] /\ x[2] < y[2])

\* a is chronologically earlier than b: lexicographic order on the fields
Earlier(a, b) ==
    LET ka == <<a.Year, a.Month, a.Date, a.Hour_24mode, a.Minute, a.Second>>
        kb == <<b.Year, b.Month, b.Date, b.Hour_24mode, b.Minute, b.Second>>
    IN  \E i \in 1..6 : ka[i] < kb[i] /\ \A j \in 1..(i - 1) : ka[j] = kb[j]

\* ((total_days * 24 + hour) * 60 + minute) * 60 + second, total_days being
\* the days from 2000-01-01 (day 10957 since 1970-01-01) to the clock's date.
SecondsSince2000(c) ==
    LET d == ClockDateTime(c, dt)
        total_days == c.days - 10957
    IN  U32Add(U32Mul(U32Of((total_days * 24 + d.Hour_24mode) * 60 + d.Minute), 60),
               d.Second)

(***************************************************************************)
(* C1..C4: DS3231_ToDateTime.                                              *)
(***************************************************************************)
\* C1: round trip.  For every valid date-time t of 2000..2099 with its true
\* weekday, DS3231_ToDateTime(DS3231_ToUnixTime(t)) is t in every field.
C1_RoundTrip == RoundTripDone => dt = TrueDateTime

\* The round trip holds whenever the conversion stays inside its tables.
C1_RoundTripInsideTables ==
    (RoundTripDone /\ ~ReadsPastTable(unixtime)) => dt = TrueDateTime

\* C2: DS3231_ToDateTime produces a valid calendar date for every input:
\* month 1..12, date 1..length of the month, hour 0..23, minute and second
\* 0..59, weekday 1..7, and February 29 only in a leap year.
C2_ValidOutput == pc = "date" => ValidDateTime(dt)

C2_ValidOutputInsideTables ==
    (pc = "date" /\ ~ReadsPastTable(unixtime)) => ValidDateTime(dt)

\* C3: month end.  A timestamp on the last day of a month converts to that
\* month with Date equal to the month's length, never day 0 and never a date
\* of the following month.
C3_MonthEnd ==
    (ConvertedTrueInstant /\ LastDayOfMonth(clock)) =>
        /\ dt.Month = clock.Month
        /\ dt.Date = MonthLength(clock.Year, clock.Month)

C3_MonthEndInsideTables ==
    (ConvertedTrueInstant /\ LastDayOfMonth(clock) /\ ~ReadsPastTable(unixtime)) =>
        /\ dt.Month = clock.Month
        /\ dt.Date = MonthLength(clock.Year, clock.Month)

\* C4: weekday.  For a timestamp of 2000..2099 the Day field is the true day
\* of the week (1 = Monday .. 7 = Sunday), that is
\* ((unixtime div 86400 + 3) mod 7) + 1; 2000-01-01 is day 6, 2024-01-01 day 1
\* and 2024-12-25 day 3.
C4_Weekday ==
    (ConvertedTrueInstant /\ InSupportedYears(clock.Year)) =>
        /\ dt.Day = clock.Day
        /\ dt.Day = ((U32DivDay(unixtime) + 3) % 7) + 1
        /\ (clock.Year = 2000 /\ clock.Month = 1 /\ clock.Date = 1) => dt.Day = 6
        /\ (clock.Year = 2024 /\ clock.Month = 1 /\ clock.Date = 1) => dt.Day = 1
        /\ (clock.Year = 2024 /\ clock.Month = 12 /\ clock.Date = 25) => dt.Day = 3

C4_WeekdayInsideTables ==
    (ConvertedTrueInstant /\ InSupportedYears(clock.Year) /\ ~ReadsPastTable(unixtime)) =>
        /\ dt.Day = clock.Day
        /\ dt.Day = ((U32DivDay(unixtime) + 3) % 7) + 1

(***************************************************************************)
(* C5..C7: DS3231_ToUnixTime.                                              *)
(***************************************************************************)
\* C5 as stated: DS3231_ToUnixTime called with Year < 2000 signals an
\* OutOfRange error to its caller.
C5_SignalsOutOfRange ==
    (ToUnixTimeDone /\ dt.Year < 2000) => ret = "OutOfRange"

\* What DS3231_ToUnixTime does instead: called with Year < 2000 it returns
\* nothing (it is a void function) and leaves *unixtime as it was before the
\* call; it stores no negative or wrapped value.
C5_RejectsSilently ==
    (ToUnixTimeDone /\ dt.Year < 2000) =>
        /\ ret = "void"
        /\ unixtime = last.unixtime

\* DS3231_ToUnixTime has returned from a call with the date 1999-01-02.
C5_Witness ==
    /\ ToUnixTimeDone
    /\ dt.Year = 1999 /\ dt.Month = 1 /\ dt.Date = 2
    /\ unixtime = last.unixtime
    /\ unixtime # U32Of(12345)

\* C6 as stated: for a valid date-time of 2000..2099 the result of
\* DS3231_ToUnixTime is ((total_days * 24 + hour) * 60 + minute) * 60 + second,
\* the seconds since 2000-01-01T00:00:00, so that 2000-01-01T00:00:00 gives 0.
C6_SecondsSince2000 ==
    (ToUnixTimeDone /\ InSupportedYears(dt.Year)) => unixtime = SecondsSince2000(clock)

\* C6, amended: for a valid date-time of 2000..2099 the result of
\* DS3231_ToUnixTime is ((total_days * 24 + hour) * 60 + minute) * 60 + second
\* + 946684800, the seconds since 1970-01-01T00:00:00, so that
\* 2000-01-01T00:00:00 gives 946684800.
C6_SecondsSince1970 ==
    (ToUnixTimeDone /\ InSupportedYears(dt.Year)) =>
        /\ unixtime = U32Add(SecondsSince2000(clock), 946684800)
        /\ unixtime = ClockSeconds(clock)
        /\ (dt.Year = 2000 /\ dt.Month = 1 /\ dt.Date = 1 /\ clock.mark = 1)
               => unixtime = U32Of(946684800)

\* a date after a leap day late in the range, past 2^31 seconds
C6_Witness ==
    /\ ToUnixTimeDone
    /\ dt.Year = 2096 /\ dt.Month = 3 /\ dt.Date = 1
    /\ dt.Hour_24mode = 1 /\ dt.Minute = 0 /\ dt.Second = 0
    /\ unixtime = U32Add(SecondsSince2000(clock), 946684800)
    /\ unixtime[1] >= 32768

\* C7: monotonicity.  If t1 is chronologically earlier than t2, both valid
\* date-times of 2000..2099, then DS3231_ToUnixTime(t1) < DS3231_ToUnixTime(t2),
\* and date-times one second apart give results that differ by exactly 1,
\* also across month, leap-day and year boundaries.  (t1 is the input of the
\* previous call, t2 of this one.)
C7_Monotonic ==
    (/\ ToUnixTimeDone
     /\ InSupportedYears(last.dt.Year) /\ InSupportedYears(dt.Year)
     /\ Earlier(last.dt, dt)) =>
        /\ U32Less(last.unixtime, unixtime)
        /\ (ClockSeconds(clock) = U32Add(last.ts, 1)) => unixtime = U32Add(last.unixtime, 1)

\* one second across the leap day and month boundary 2024-02-29 -> 2024-03-01
C7_Witness ==
    /\ ToUnixTimeDone
    /\ last.dt.Year = 2024 /\ last.dt.Month = 2 /\ last.dt.Date = 29
    /\ last.dt.Hour_24mode = 23 /\ last.dt.Minute = 59 /\ last.dt.Second = 59
    /\ dt.Year = 2024 /\ dt.Month = 3 /\ dt.Date = 1
    /\ dt.Hour_24mode = 0 /\ dt.Minute = 0 /\ dt.Second = 0
    /\ Earlier(last.dt, dt)
    /\ unixtime = U32Add(last.unixtime, 1)

(***************************************************************************)
(* C8..C10: the accessors of the CONTROL and STATUS registers.             *)
(***************************************************************************)
\* Every bus transaction of the last call succeeded.
AllSucceeded == \A i \in 1..Len(bus) : bus[i][3] = "HAL_OK"

Returned(fn) == pc = "returned" /\ call.fn = fn

\* C8: after a successful DS3231_SetRateSelect(rate) the INTCN bit of CONTROL
\* selects the square wave output (DS3231_GetInterruptMode reports
\* DS3231_SQUARE_WAVE_INTERRUPT) and the RS2/RS1 bits equal rate.
C8_RateSelectSquareWave ==
    (Returned("SetRateSelect") /\ ret = "HAL_OK" /\ AllSucceeded) =>
        /\ DS3231_GetInterruptMode(SharedBus, DS3231_ALARM_INTERRUPT).mode
               = DS3231_SQUARE_WAVE_INTERRUPT
        /\ DS3231_GetRateSelect(SharedBus, (call.arg + 1) % 4).rate = call.arg

\* What DS3231_SetRateSelect does instead: it leaves the pin in alarm
\* interrupt mode, with the RS2/RS1 bits equal to rate.
C8_RateSelectAlarmInterrupt ==
    (Returned("SetRateSelect") /\ ret = "HAL_OK" /\ AllSucceeded) =>
        /\ DS3231_GetInterruptMode(SharedBus, DS3231_SQUARE_WAVE_INTERRUPT).mode
               = DS3231_ALARM_INTERRUPT
        /\ DS3231_GetRateSelect(SharedBus, (call.arg + 1) % 4).rate = call.arg

\* C9: after a successful DS3231_Init, from any register contents, the
\* battery-backed square wave is disabled: bit BBSQW of CONTROL is 0.
C9_InitDisablesBBSQW ==
    (Returned("Init") /\ ret = "HAL_OK" /\ AllSucceeded) =>
        Bit(regs[DS3231_REG_CONTROL], DS3231_BBSQW) = 0

\* C10: after a DS3231_Init whose bus transactions all succeed, from any
\* register contents, A1IE = 0 and A2IE = 0 in CONTROL, A1F = 0 and A2F = 0
\* in STATUS and INTCN = 1; and if a step fails, Init returns the status of
\* that step and issues no further step.
C10_InitAlarmsOff ==
    (Returned("Init") /\ AllSucceeded) =>
        /\ ret = "HAL_OK"
        /\ Bit(regs[DS3231_REG_CONTROL], DS3231_A1IE) = 0
        /\ Bit(regs[DS3231_REG_CONTROL], DS3231_A2IE) = 0
        /\ Bit(regs[DS3231_REG_STATUS], DS3231_A1F) = 0
        /\ Bit(regs[DS3231_REG_STATUS], DS3231_A2F) = 0
        /\ Bit(regs[DS3231_REG_CONTROL], DS3231_INTCN) = 1

C10_InitStopsAtFailure ==
    Returned("Init") =>
        \A i \in 1..Len(bus) :
            bus[i][3] # "HAL_OK" => (ret = bus[i][3] /\ i = Len(bus))

C10_Init == C10_InitAlarmsOff /\ C10_InitStopsAtFailure

(***************************************************************************)
(* C12, C14: DS3231_SetDateTime and DS3231_GetDateTime.                    *)
(***************************************************************************)
\* The fields of the date-time that the timekeeping registers hold.
TimeFields(d) ==
    <<d.Second, d.Minute, d.Hour_24mode, d.Day, d.Date, d.Month, d.Year>>

\* Every field inside its legal range.
InRange(d) ==
    /\ d.Year \in 2000..2099
    /\ d.Month \in 1..12
    /\ d.Date \in 1..31
    /\ d.Day \in 1..7
    /\ d.Hour_24mode \in 0..23
    /\ d.Minute \in 0..59
    /\ d.Second \in 0..59

\* C12: the field validation of DS3231_SetDateTime never rejects.  For every
\* combination of Day, Date, Month, Year, Hour_24mode, Minute and Second,
\* out-of-range values such as Month = 13 or Date = 0 included, no validation
\* branch returns HAL_ERROR: on a bus where every transaction succeeds the
\* call returns HAL_OK and has written the seven timekeeping registers.
C12_ValidationNeverRejects ==
    (Returned("SetDateTime") /\ AllSucceeded) =>
        /\ ret = "HAL_OK"
        /\ Len(bus) = 3
        /\ bus[1] = <<"write", DS3231_REG_SECOND, "HAL_OK">>
        /\ \A i \in 1..7 : regs[(DS3231_REG_SECOND + i) - 1] = DateTimeBuffer(call.arg)[i]

\* DS3231_SetDateTime has returned HAL_OK for Month = 13 and Date = 0.
C12_Witness ==
    /\ Returned("SetDateTime")
    /\ AllSucceeded
    /\ ret = "HAL_OK"
    /\ call.arg.Month = 13
    /\ call.arg.Date = 0
    /\ regs[5] = 19

\* C14: register round trip of the date-time.  With registers that store what
\* is written and every bus transaction succeeding, DS3231_SetDateTime(dt)
\* followed by DS3231_GetDateTime returns the Second, Minute, Hour_24mode,
\* Day, Date, Month and Year of dt, for every dt with Year in 2000..2099,
\* Month 1..12, Date 1..31, Day 1..7, Hour_24mode 0..23, Minute and Second
\* 0..59.
C14_RegisterRoundTrip ==
    (Returned("GetDateTime") /\ AllSucceeded /\ InRange(call.arg)) =>
        /\ ret = "HAL_OK"
        /\ Len(bus) = 5
        /\ TimeFields(dt) = TimeFields(call.arg)

\* The round trip of 2099-12-31 23:59:59, day 7, has been made.
C14_Witness ==
    /\ Returned("GetDateTime")
    /\ AllSucceeded
    /\ Len(bus) = 5
    /\ TimeFields(call.arg) = <<59, 59, 23, 7, 31, 12, 2099>>
    /\ TimeFields(dt) = <<59, 59, 23, 7, 31, 12, 2099>>

\* Outside the legal ranges the round trip is lost: the date-time read back
\* differs from the one that was set.
C14_OutOfRangeAltered ==
    /\ Returned("GetDateTime")
    /\ AllSucceeded
    /\ ~InRange(call.arg)
    /\ TimeFields(dt) # TimeFields(call.arg)

(***************************************************************************)
(* C11: the status the setters return.                                     *)
(***************************************************************************)
\* The setters that perform bus transactions.
Setters ==
    {"SetAlarm1IntEn", "SetAlarm2IntEn", "SetRateSelect", "SetAlarm1", "SetAlarm2",
     "SetDateTime", "Init"}

\* The setters that go through DS3231_SetAlarm1IntEn.
ThroughSetAlarm1IntEn == {"SetAlarm1IntEn", "SetAlarm1", "Init"}

\* C11: status reporting.  Each of DS3231_SetAlarm1IntEn,
\* DS3231_SetAlarm2IntEn, DS3231_SetRateSelect, DS3231_SetAlarm1,
\* DS3231_SetAlarm2, DS3231_SetDateTime and DS3231_Init returns a status other
\* than HAL_OK if any register read or write it issued failed: it returns
\* HAL_OK only when every transaction it issued succeeded.
C11_StatusReporting ==
    (pc = "returned" /\ call.fn \in Setters /\ ret = "HAL_OK") => AllSucceeded

\* The setters that do not go through DS3231_SetAlarm1IntEn report every
\* failed transaction, and so does every setter for every transaction but
\* the write of CONTROL in DS3231_SetAlarm1IntEn.
C11_StatusReportingElsewhere ==
    (pc = "returned" /\ call.fn \in Setters /\ ret = "HAL_OK") =>
        \A i \in 1..Len(bus) :
            bus[i][3] # "HAL_OK" =>
                /\ call.fn \in ThroughSetAlarm1IntEn
                /\ bus[i] = <<"write", DS3231_REG_CONTROL, bus[i][3]>>
                /\ i = (CASE call.fn = "SetAlarm1" -> 3
                          [] call.fn = "SetAlarm1IntEn" -> 2
                          [] call.fn = "Init" -> 2)

(***************************************************************************)
(* C13: DS3231_GetAlarm1 running against DS3231_SetAlarm1.                 *)
(***************************************************************************)
\* DS3231_GetAlarm1 has returned, every transaction having succeeded.
GetAlarm1Returned == getter.pc = 3 /\ getter.status = "HAL_OK" /\ AllSucceeded

\* The configuration being set, with the interrupt enable of the old one.
NewWithOldIntEn == [setter.A1_st EXCEPT !.IntEn = before.IntEn]

\* The old configuration, with the interrupt enable of the one being set.
OldWithNewIntEn == [before EXCEPT !.IntEn = setter.A1_st.IntEn]

\* C13: torn read.  With DS3231_SetAlarm1 and DS3231_GetAlarm1 interleaved
\* at bus-transaction granularity and no serialization, DS3231_GetAlarm1 can
\* return a configuration that is neither the one before the Set nor the one
\* after it (the new Seconds, Minutes, Hours, DayDate and Mode with the old
\* IntEn); with the whole Set sequence serialized against the reader no such
\* configuration is returned.  Every configuration returned is the old one,
\* the new one or, without serialization only, a mix of the fields of one
\* with the IntEn of the other.
C13_TornReadOnlyUnserialized ==
    GetAlarm1Returned =>
        \/ getter.A1_st \in {before, setter.A1_st}
        \/ /\ ~mutex.used
           /\ getter.A1_st \in {NewWithOldIntEn, OldWithNewIntEn}

\* Without serialization DS3231_GetAlarm1 has returned the new Seconds,
\* Minutes, Hours, DayDate and Mode with the old IntEn.
C13_TornRead ==
    /\ GetAlarm1Returned
    /\ ~mutex.used
    /\ getter.A1_st = NewWithOldIntEn
    /\ getter.A1_st \notin {before, setter.A1_st}

\* With serialization DS3231_GetAlarm1 has returned the new configuration.
C13_SerializedReadOfNew ==
    /\ GetAlarm1Returned
    /\ mutex.used
    /\ setter.pc = 6
    /\ getter.A1_st = setter.A1_st

\* The transactions of a serialized DS3231_SetAlarm1 and DS3231_GetAlarm1
\* are those of the single calls.
StepsAgreeWithCalls ==
    (mutex.used /\ setter.pc = 6 /\ getter.pc = 3 /\ bus[1][1] = "write") =>
        \E intcn \in {0, 1} :
            LET b0 == [regs |-> Alarm1Registers(before, intcn), log |-> <<>>,
                       faults |-> {}, status |-> "HAL_ERROR"]
                s1 == DS3231_SetAlarm1(b0, setter.A1_st)
                g1 == DS3231_GetAlarm1(s1.b, NoAlarm1)
            IN  /\ regs = g1.b.regs
                /\ bus = g1.b.log
                /\ setter.status = s1.status
                /\ getter.status = g1.status
                /\ getter.A1_st = g1.A1_st

====
